---- MODULE Spec2Model ----
(***************************************************************************)
(* A model of the zentra-api route-set generator:                          *)
(*   - Route construction (cli/constants/routes.py),                       *)
(*   - name normalisation and route resolution (cli/commands/add.py),      *)
(*   - the add-routeset orchestrator and the files it writes.              *)
(* Text is modelled as a sequence of lines: the text is the lines joined   *)
(* by "\n", so a text ending in "\n" has "" as its last line.              *)
(***************************************************************************)
EXTENDS Integers, Sequences, FiniteSets, TLC

VARIABLES
    rin,        \* SpecRoute: the keyword arguments of Route(...)
    route,      \* SpecRoute: the constructed Route, or NoRoute
    details,    \* SpecRoute: the RouteDefaultDetails built in model_post_init
    gname,      \* SpecGen: the name argument of add-routeset, as typed
    gopt,       \* SpecGen: the RouteOptions member, a string of letters
    gstored,    \* SpecGen: the Name store_name returned, or NoName
    gmap,       \* SpecGen: AddRouteTasks.route_map, or <<>>
    groutes,    \* SpecGen: what _get_routes returned
    gstage,     \* SpecGen: "new", "named", "mapped" or "resolved"
    fs,         \* Spec: the folders under {root}/app/api, by name
    pc,         \* Spec: where each add-routeset invocation stands
    self,       \* Spec: each invocation's AddRouteTasks object
    tasks,      \* Spec: each invocation's tasks still to run, and the step of the first
    exit_code,  \* Spec: the code of each invocation's typer.Exit, or None
    hist,       \* Spec: what each invocation saw and did (history)
    sobj,       \* SpecSynth: the AddRouteTasks object the process works on
    sbase,      \* SpecSynth: the list RouteImports.BASE.value of the process
    scalls,     \* SpecSynth: the synthesizer calls made so far in the process
    kalgo,      \* SpecKey: the algorithm given to new-key
    kkey,       \* SpecKey: the key generate_secret_key has joined so far
    kout,       \* SpecKey: what new-key printed, or None
    psfs,       \* SpecSetup: the project directories under the root, by name
    pspc,       \* SpecSetup: where each init invocation stands
    psname,     \* SpecSetup: each invocation's project name
    pstasks,    \* SpecSetup: each invocation's tasks still to run
    psexit,     \* SpecSetup: the code of each invocation's typer.Exit, or None
    psran,      \* SpecSetup: the tasks each invocation ran, in order (history)
    ctable,     \* SpecCrud: the rows of the table, in the order a query gives them
    cnext,      \* SpecCrud: the next value of the table's id sequence
    cop,        \* SpecCrud: the last CRUD call, with its arguments
    cres,       \* SpecCrud: what the last CRUD call returned
    clive       \* SpecCrud: the ids created and not deleted since (history)

routeVars == <<rin, route, details>>
genVars == <<gname, gopt, gstored, gmap, groutes, gstage>>
orchVars == <<fs, pc, self, tasks, exit_code, hist>>
synthVars == <<sobj, sbase, scalls>>
keyVars == <<kalgo, kkey, kout>>
setupVars == <<psfs, pspc, psname, pstasks, psexit, psran>>
crudVars == <<ctable, cnext, cop, cres, clive>>
vars == <<rin, route, details, gname, gopt, gstored, gmap, groutes, gstage,
          fs, pc, self, tasks, exit_code, hist, sobj, sbase, scalls,
          kalgo, kkey, kout, psfs, pspc, psname, pstasks, psexit, psran,
          ctable, cnext, cop, cres, clive>>

\* The variables a specification leaves alone: those of the others.
notRouteVars == <<genVars, orchVars, synthVars, keyVars, setupVars, crudVars>>
notGenVars == <<routeVars, orchVars, synthVars, keyVars, setupVars, crudVars>>
notOrchVars == <<routeVars, genVars, synthVars, keyVars, setupVars, crudVars>>
notSynthVars == <<routeVars, genVars, orchVars, keyVars, setupVars, crudVars>>
notKeyVars == <<routeVars, genVars, orchVars, synthVars, setupVars, crudVars>>
notSetupVars == <<routeVars, genVars, orchVars, synthVars, keyVars, crudVars>>
notCrudVars == <<routeVars, genVars, orchVars, synthVars, keyVars, setupVars>>

(***************************************************************************)
(* Bounds of the model.                                                    *)
(***************************************************************************)
MaxCodes == 2       \* longest caller-supplied response_codes list
MaxParams == 1      \* longest caller-supplied parameters list
NumInvocations == 2 \* add-routeset invocations, run one after the other

\* Python's None; f"{None}" renders as the text None.
None == "None"
NoRoute == [name |-> None]
NoName == [singular |-> None, plural |-> None]

(***************************************************************************)
(* Generic helpers on sequences and strings.                               *)
(***************************************************************************)
RECURSIVE SeqsUpTo(_, _)
SeqsUpTo(S, n) ==
    IF n = 0 THEN {<<>>}
    ELSE LET shorter == SeqsUpTo(S, n - 1)
         IN shorter \cup {Append(s, x) : s \in {t \in shorter : Len(t) = n - 1}, x \in S}

Range(s) == {s[i] : i \in DOMAIN s}

Contains(s, x) == \E i \in DOMAIN s : s[i] = x

\* All the lists that hold each element of S exactly once.
RECURSIVE Orderings(_)
Orderings(S) ==
    IF S = {} THEN {<<>>}
    ELSE UNION {{<<x>> \o rest : rest \in Orderings(S \ {x})} : x \in S}

\* sep.join(parts)
RECURSIVE JoinStr(_, _)
JoinStr(parts, sep) ==
    IF Len(parts) = 0 THEN ""
    ELSE IF Len(parts) = 1 THEN parts[1]
    ELSE parts[1] \o sep \o JoinStr(Tail(parts), sep)

(***************************************************************************)
(* Enumerations (cli/constants/enums.py).                                  *)
(***************************************************************************)
RouteMethods == <<"get", "post", "put", "patch", "delete">>

\* A RouteMethodType whose PATCH has a verb of its own.
RouteMethodType_PatchVerb ==
    [get |-> "Get", post |-> "Create", put |-> "Update", patch |-> "Patch",
     delete |-> "Delete"]

\* RouteMethodType[method.upper()] rendered in an f-string: the member's value.
\* PATCH = "Update" is an alias of PUT.
RouteMethodType ==
    [get |-> "Get", post |-> "Create", put |-> "Update", patch |-> "Update",
     delete |-> "Delete"]

\* RouteMethods.values(ignore=[...]): the method values but the ignored ones.
RouteMethodsValues(ignore) == SelectSeq(RouteMethods, LAMBDA m : m \notin ignore)

\* RouteResponseCodes.AUTH / BAD_REQUEST
RouteResponseCodesAUTH == <<401, 403>>
RouteResponseCodesBAD_REQUEST == <<400>>

\* RouteParameters.ID / DB_DEPEND / AUTH_DEPEND
RouteParametersID == <<"id", "int">>
RouteParametersDB_DEPEND == <<"db", "DB_DEPEND">>
RouteParametersAUTH_DEPEND == <<"current_user", "ACTIVE_USER_DEPEND">>

status_codes ==
    200 :> "HTTP_200_OK" @@ 201 :> "HTTP_201_CREATED" @@ 202 :> "HTTP_202_ACCEPTED"
    @@ 400 :> "HTTP_400_BAD_REQUEST" @@ 401 :> "HTTP_401_UNAUTHORIZED"

(***************************************************************************)
(* str.lower() and str.title() on the words of the model.                  *)
(***************************************************************************)
\* The words of the model that have an upper-case letter, lower-cased.
LowerTable ==
    [Projects |-> "projects", Project |-> "project", CHILD |-> "child",
     Product |-> "product",
     Get |-> "get", Create |-> "create", Update |-> "update", Delete |-> "delete"]
Lower(s) == IF s \in DOMAIN LowerTable THEN LowerTable[s] ELSE s

\* str.strip(): the words of the model that have white space around them.
Strip(s) ==
    CASE s = " child " -> "child"
      [] s = "products " -> "products"
      [] OTHER -> s

TitleTable ==
    [project |-> "Project", projects |-> "Projects", child |-> "Child",
     children |-> "Children", product |-> "Product", products |-> "Products"]
Title(s) == TitleTable[s]

(***************************************************************************)
(* list(set(a).union(set(b))) on ints, as CPython computes it: a set is an  *)
(* open-addressing hash table, hash(n) = n for a small int, and list()     *)
(* walks the table by slot.  The result order is decided by the slots.     *)
(***************************************************************************)
PySet_MINSIZE == 8
LINEAR_PROBES == 9
PERTURB_SHIFT == 5
NULL == 0 - 1

EmptySet == [mask |-> PySet_MINSIZE - 1, table |-> [i \in 0..(PySet_MINSIZE - 1) |-> NULL]]

SetUsed(so) == Cardinality({i \in DOMAIN so.table : so.table[i] # NULL})

\* The keys of a table in slot order: the order iteration yields.
RECURSIVE TableOrder(_, _, _)
TableOrder(table, i, mask) ==
    IF i > mask THEN <<>>
    ELSE (IF table[i] = NULL THEN <<>> ELSE <<table[i]>>) \o TableOrder(table, i + 1, mask)

SetOrder(so) == TableOrder(so.table, 0, so.mask)

\* The inner do-while of set_add_entry: slots j, j+1, ..., j+probes.
RECURSIVE ProbeLinear(_, _, _, _)
ProbeLinear(table, j, probes, key) ==
    IF table[j] = NULL \/ table[j] = key THEN j
    ELSE IF probes = 0 THEN NULL
    ELSE ProbeLinear(table, j + 1, probes - 1, key)

\* The outer loop of set_add_entry: the slot that is free, or holds key.
RECURSIVE FindSlot(_, _, _, _, _)
FindSlot(table, mask, i, perturb, key) ==
    LET probes == IF i + LINEAR_PROBES <= mask THEN LINEAR_PROBES ELSE 0
        j == ProbeLinear(table, i, probes, key)
        p == perturb \div (2 ^ PERTURB_SHIFT)
    IN IF j # NULL THEN j
       ELSE FindSlot(table, mask, (i * 5 + 1 + p) % (mask + 1), p, key)

set_insert_clean(table, mask, key) ==
    [table EXCEPT ![FindSlot(table, mask, key % (mask + 1), key, key)] = key]

RECURSIVE InsertAllClean(_, _, _)
InsertAllClean(table, mask, keys) ==
    IF keys = <<>> THEN table
    ELSE InsertAllClean(set_insert_clean(table, mask, Head(keys)), mask, Tail(keys))

RECURSIVE NewSize(_, _)
NewSize(size, minused) == IF size <= minused THEN NewSize(2 * size, minused) ELSE size

set_table_resize(so, minused) ==
    LET newsize == NewSize(PySet_MINSIZE, minused)
    IN [mask |-> newsize - 1,
        table |-> InsertAllClean([i \in 0..(newsize - 1) |-> NULL], newsize - 1, SetOrder(so))]

set_add_entry(so, key) ==
    LET slot == FindSlot(so.table, so.mask, key % (so.mask + 1), key, key)
        added == [so EXCEPT !.table[slot] = key]
    IN IF so.table[slot] = key THEN so
       ELSE IF SetUsed(added) * 5 < so.mask * 3 THEN added
       ELSE set_table_resize(added, SetUsed(added) * 4)

RECURSIVE AddAll(_, _)
AddAll(so, keys) ==
    IF keys = <<>> THEN so ELSE AddAll(set_add_entry(so, Head(keys)), Tail(keys))

\* set(list)
set_new(list) == AddAll(EmptySet, list)

\* set_merge(so, other): so.update(other) for a set other.
set_merge(so, other) ==
    IF SetUsed(other) = 0 THEN so
    ELSE LET grown == IF (SetUsed(so) + SetUsed(other)) * 5 >= so.mask * 3
                      THEN set_table_resize(so, (SetUsed(so) + SetUsed(other)) * 2)
                      ELSE so
         IN IF SetUsed(grown) = 0 /\ grown.mask = other.mask THEN other
            ELSE IF SetUsed(grown) = 0
                 THEN [grown EXCEPT !.table = InsertAllClean(grown.table, grown.mask, SetOrder(other))]
            ELSE AddAll(grown, SetOrder(other))

\* a.union(b): a copy of a, updated with b.
set_union(a, b) == set_merge(set_merge(EmptySet, a), b)

\* list(set(a).union(set(b)))
ListOfUnion(a, b) == SetOrder(set_union(set_new(a), set_new(b)))

(***************************************************************************)
(* Route and RouteDefaultDetails (cli/constants/routes.py).                *)
(***************************************************************************)
\* set_response_codes without the bad-request branch.
set_response_codes_NoBadRequest(auth, method) ==
    IF auth THEN RouteResponseCodesAUTH ELSE <<>>

\* RouteDefaultDetails.set_response_codes
set_response_codes(auth, method) ==
    (IF auth THEN RouteResponseCodesAUTH ELSE <<>>)
    \o (IF Contains(RouteMethodsValues({"get"}), method)
        THEN RouteResponseCodesBAD_REQUEST ELSE <<>>)

\* RouteDefaultDetails.set_parameters
set_parameters(method, multi, name, schema_model, auth) ==
    (IF Contains(RouteMethodsValues({"post"}), method) /\ ~multi
     THEN <<RouteParametersID>> ELSE <<>>)
    \o (IF schema_model # None THEN <<<<name, schema_model>>>> ELSE <<>>)
    \o <<RouteParametersDB_DEPEND>>
    \o (IF auth THEN <<RouteParametersAUTH_DEPEND>> ELSE <<>>)

\* RouteDefaultDetails(...) after its model_post_init
RouteDefaultDetails(method, multi, name, schema_model, auth) ==
    [response_codes |-> set_response_codes(auth, method),
     parameters |-> set_parameters(method, multi, name, schema_model, auth)]

\* Route.set_response_model
set_response_model(method, name) ==
    IF method = "delete" THEN None
    ELSE RouteMethodType[method] \o Title(name) \o "Response"

\* Route.set_schema_model
set_schema_model(method, name) ==
    IF method \in {"get", "delete"} THEN None
    ELSE Title(name) \o RouteMethodType[method]

\* A func_name built on the human verb of the method.
func_name_HumanVerb(method, name) == Lower(RouteMethodType[method]) \o "_" \o Lower(name)

\* Route._func_name as model_post_init sets it
func_name(method, name) == Lower(method) \o "_" \o Lower(name)

\* The parameters a Route ends with, as a set: set(a).union(set(b)).
ParameterSet(kw) ==
    Range(kw.parameters)
    \cup Range(RouteDefaultDetails(kw.method, kw.multi, kw.name,
                                   set_schema_model(kw.method, kw.name), kw.auth).parameters)

\* list(set of tuples of str): the set's table is walked by slot, and the slots
\* follow the strings' hashes, which are randomised per process.  `slots` lists
\* the tuples in the slot order of the process; the list keeps that order.
ListOfTupleSet(S, slots) == SelectSeq(slots, LAMBDA t : t \in S)

\* Route.model_post_init: the Route built from the keyword arguments kw.
model_post_init(kw, slots) ==
    LET schema == set_schema_model(kw.method, kw.name)
        dflt == RouteDefaultDetails(kw.method, kw.multi, kw.name, schema, kw.auth)
    IN [name |-> kw.name, method |-> kw.method, route |-> kw.route,
        status_code |-> kw.status_code, content |-> kw.content,
        multi |-> kw.multi, auth |-> kw.auth,
        func_name |-> func_name(kw.method, kw.name),
        response_model |-> set_response_model(kw.method, kw.name),
        schema_model |-> schema,
        parameters |-> ListOfTupleSet(Range(kw.parameters) \cup Range(dflt.parameters), slots),
        response_codes |-> ListOfUnion(kw.response_codes, dflt.response_codes)]

\* Route.params_to_str
params_to_str(r) ==
    IF r.parameters = <<>> THEN ""
    ELSE JoinStr([i \in DOMAIN r.parameters |->
                    r.parameters[i][1] \o ": " \o r.parameters[i][2]], ", ")

\* Route.indent with the default spaces=4
indent(line) == "    " \o line

\* f"{list of int}"
ListRepr(codes) == "[" \o JoinStr([i \in DOMAIN codes |-> ToString(codes[i])], ", ") \o "]"

\* Route.to_str: the lines of the decorator, the signature and the body.
to_str(r) ==
    << "@router." \o r.method \o "(",
       indent("\"" \o r.route \o "\","),
       indent("status_code=status." \o status_codes[r.status_code] \o ",") >>
    \o (IF r.response_codes # <<>>
        THEN <<indent("responses=get_response_models(" \o ListRepr(r.response_codes) \o "),")>>
        ELSE <<>>)
    \o << indent("response_model=" \o r.response_model \o ","),
          ")",
          "async def " \o r.func_name \o "(" \o params_to_str(r) \o "):",
          indent(r.content) >>

\* The variables of the other specifications, at rest.
GenIdle ==
    /\ gname = None /\ gopt = None /\ gstored = NoName
    /\ gmap = <<>> /\ groutes = <<>> /\ gstage = "idle"

RouteIdle == rin = NoRoute /\ route = NoRoute /\ details = NoRoute

OrchIdle ==
    /\ fs = <<>> /\ pc = <<>> /\ self = <<>>
    /\ tasks = <<>> /\ exit_code = <<>> /\ hist = <<>>

SynthIdle == sobj = <<>> /\ sbase = <<>> /\ scalls = <<>>

\* Nothing printed yet: a printed key has a character.
NoKey == <<>>

KeyIdle == kalgo = None /\ kkey = <<>> /\ kout = NoKey

SetupIdle ==
    /\ psfs = <<>> /\ pspc = <<>> /\ psname = <<>>
    /\ pstasks = <<>> /\ psexit = <<>> /\ psran = <<>>

CrudIdle ==
    /\ ctable = <<>> /\ cnext = 0 /\ cop = <<>> /\ cres = <<>> /\ clive = {}

\* Every specification but the named one is at rest.
IdleBut(which) ==
    /\ IF which = "route" THEN TRUE ELSE RouteIdle
    /\ IF which = "gen" THEN TRUE ELSE GenIdle
    /\ IF which = "orch" THEN TRUE ELSE OrchIdle
    /\ IF which = "synth" THEN TRUE ELSE SynthIdle
    /\ IF which = "key" THEN TRUE ELSE KeyIdle
    /\ IF which = "setup" THEN TRUE ELSE SetupIdle
    /\ IF which = "crud" THEN TRUE ELSE CrudIdle

(***************************************************************************)
(* SpecRoute: Route(...) on keyword arguments drawn from bounded sets.     *)
(***************************************************************************)
RouteNames == {"product", "products"}
MethodSet == Range(RouteMethods)
CodePool == {400, 404, 409}
ParamPool == {RouteParametersID, <<"limit", "int">>}

\* The path and the status code the route set gives a method.
ShapeOf(method, multi) ==
    IF method = "get" THEN [route |-> IF multi THEN "" ELSE "/{id}", status_code |-> 200]
    ELSE IF method = "post" THEN [route |-> "", status_code |-> 201]
    ELSE [route |-> "/{id}", status_code |-> 202]

RouteInputs ==
    {[name |-> n, method |-> m, route |-> ShapeOf(m, mu).route,
      status_code |-> ShapeOf(m, mu).status_code, content |-> "pass",
      multi |-> mu, auth |-> a, response_codes |-> cs, parameters |-> ps] :
        n \in RouteNames, m \in MethodSet, mu \in BOOLEAN, a \in BOOLEAN,
        cs \in SeqsUpTo(CodePool, MaxCodes), ps \in SeqsUpTo(ParamPool, MaxParams)}

InitRoute ==
    /\ rin \in RouteInputs
    /\ route = NoRoute
    /\ details = NoRoute
    /\ IdleBut("route")

\* Route(**rin): pydantic validates the fields, then runs model_post_init.
Construct ==
    /\ route = NoRoute
    /\ \E slots \in Orderings(ParameterSet(rin)) :
         route' = model_post_init(rin, slots)
    /\ details' = RouteDefaultDetails(rin.method, rin.multi, rin.name,
                                      set_schema_model(rin.method, rin.name), rin.auth)
    /\ UNCHANGED <<rin, notRouteVars>>

NextRoute == Construct

SpecRoute == InitRoute /\ [][NextRoute]_vars

(***************************************************************************)
(* Properties of Route construction, checked under SpecRoute.              *)
(***************************************************************************)
Constructed == route # NoRoute

\* C6: every constructed Route has 400 among its response_codes when its
\* method is not GET, has 401 and 403 when auth is true, and keeps every
\* caller-supplied code.
C6_MandatoryCodes ==
    Constructed =>
        /\ (route.method # "get" => Contains(route.response_codes, 400))
        /\ (route.auth => Contains(route.response_codes, 401)
                          /\ Contains(route.response_codes, 403))
        /\ \A c \in Range(rin.response_codes) : Contains(route.response_codes, c)

\* An authenticated PATCH route built with the caller's codes 409 and 404.
C6_Witness ==
    /\ Constructed
    /\ route.method = "patch" /\ route.auth
    /\ rin.response_codes = <<409, 404>>
    /\ Range(route.response_codes) = {400, 401, 403, 404, 409}

\* The place of a parameter in the list, 0 when it is absent.
IndexOf(s, x) == IF Contains(s, x) THEN CHOOSE i \in DOMAIN s : s[i] = x ELSE 0

\* C7: the parameters of every constructed Route end with the db-dependency,
\* followed by the auth-dependency as the last element when auth is true; an
\* id parameter and a body-schema parameter come before them, id first.
\* Stated on the Routes built without parameters of the caller's, whose list
\* is the derived one alone.
C7_ParameterOrder ==
    (Constructed /\ rin.parameters = <<>>) =>
        LET ps == route.parameters
            n == Len(ps)
            body == <<route.name, route.schema_model>>
            db == IndexOf(ps, RouteParametersDB_DEPEND)
        IN /\ n >= 1
           /\ IF route.auth
              THEN n >= 2 /\ ps[n] = RouteParametersAUTH_DEPEND /\ db = n - 1
              ELSE db = n
           /\ (Contains(ps, RouteParametersID) => IndexOf(ps, RouteParametersID) < db)
           /\ (Contains(ps, body) => IndexOf(ps, body) < db)
           /\ (Contains(ps, RouteParametersID) /\ Contains(ps, body)
                 => IndexOf(ps, RouteParametersID) < IndexOf(ps, body))

\* C8: for every combination of method and multi, the derived parameters
\* hold ("id", "int") iff the method is PUT, PATCH or DELETE, or the method
\* is GET and multi is false: a PUT, PATCH or DELETE route built with
\* multi=True still has the id parameter, and POST never has it.
C8_IdByMethod ==
    details # NoRoute =>
        (Contains(details.parameters, RouteParametersID)
            <=> (rin.method \in {"put", "patch", "delete"}
                 \/ (rin.method = "get" /\ ~rin.multi)))

\* The human verb of a method, as the documentation of set_response_model gives it.
HumanVerb(method) ==
    CASE method = "get" -> "Get"
      [] method = "post" -> "Create"
      [] method \in {"put", "patch"} -> "Update"
      [] OTHER -> "Delete"

\* C9: response_model is None iff the method is DELETE and otherwise is
\* HumanVerb + Title(name) + "Response"; schema_model is None iff the method
\* is GET or DELETE and otherwise is Title(name) + HumanVerb.
C9_ModelNames ==
    Constructed =>
        /\ (route.response_model = None <=> route.method = "delete")
        /\ (route.method # "delete" =>
              route.response_model = HumanVerb(route.method) \o Title(route.name) \o "Response")
        /\ (route.schema_model = None <=> route.method \in {"get", "delete"})
        /\ (route.method \notin {"get", "delete"} =>
              route.schema_model = Title(route.name) \o HumanVerb(route.method))

\* A PATCH route on "product": it derives the names of the PUT route.
C9_Witness ==
    /\ Constructed
    /\ route.method = "patch" /\ route.name = "product"
    /\ route.response_model = "UpdateProductResponse"
    /\ route.schema_model = "ProductUpdate"

\* C10: func_name is the HTTP method joined to the name fragment by an
\* underscore.
C10_FuncName ==
    Constructed => route.func_name = rin.method \o "_" \o rin.name

\* The create route on "product" is named post_product.
C10_Witness ==
    /\ Constructed
    /\ rin.method = "post" /\ rin.name = "product"
    /\ route.func_name = "post_product"

\* The signature line of a rendered route: the line before the body.
SignatureLine(text) == text[Len(text) - 1]

\* The signature line of a handler called fname with the route's parameters.
SignatureOf(fname, r) == "async def " \o fname \o "(" \o params_to_str(r) \o "):"

\* C11: the text rendered by to_str names the handler with the human verb
\* of the operation: get_{name} for GET, create_{name} for POST,
\* update_{name} for PUT and for PATCH, delete_{name} for DELETE.
C11_HandlerHumanVerb ==
    Constructed =>
        SignatureLine(to_str(route))
            = SignatureOf(Lower(HumanVerb(route.method)) \o "_" \o route.name, route)

(***************************************************************************)
(* Name normalisation and route resolution (cli/commands/add.py).          *)
(***************************************************************************)
\* The singular/plural pairs the pluralization engine knows, of the model's words.
KnownPairs ==
    { <<"project", "projects">>, <<"child", "children">>, <<"product", "products">> }

\* What singular_noun returns for a word that is no plural: a falsy value.
NotPlural == ""

\* inflect.engine().singular_noun(word)
singular_noun(word) ==
    IF \E pr \in KnownPairs : pr[2] = word
    THEN (CHOOSE pr \in KnownPairs : pr[2] = word)[1]
    ELSE NotPlural

\* inflect.engine().plural_noun(word), for a singular word
plural_noun(word) == (CHOOSE pr \in KnownPairs : pr[1] = word)[2]

\* store_name that takes the engine's answer for the plural.
store_name_Swapped(name) ==
    LET singular == singular_noun(name)
    IN IF singular # NotPlural
       THEN [singular |-> name, plural |-> singular]
       ELSE [singular |-> name, plural |-> plural_noun(name)]

\* store_name(name)
store_name(name) ==
    LET singular == singular_noun(name)
    IN IF singular # NotPlural
       THEN [singular |-> singular, plural |-> name]
       ELSE [singular |-> name, plural |-> plural_noun(name)]

\* The keys of the canonical dictionary, each a string of characters.
KeyR1 == <<"r", "1">>
KeyR2 == <<"r", "2">>
KeyC == <<"c">>
KeyU == <<"u">>
KeyD == <<"d">>

\* Route(name=..., method=..., route=..., status_code=..., multi=...)
RouteOf(name, method, path, code, multi, slots) ==
    model_post_init([name |-> name, method |-> method, route |-> path,
                     status_code |-> code, content |-> "pass", multi |-> multi,
                     auth |-> TRUE, response_codes |-> <<>>, parameters |-> <<>>],
                    slots)

\* route_dict_set(name): the dictionary as its items, in insertion order.
\* Every Route makes its own set of parameters, so slots gives one slot order
\* for each of the five routes.
route_dict_set(name, slots) ==
    << [key |-> KeyR1, route |-> RouteOf(name.plural, "get", "", 200, TRUE, slots[1])],
       [key |-> KeyR2, route |-> RouteOf(name.singular, "get", "/{id}", 200, FALSE, slots[2])],
       [key |-> KeyC, route |-> RouteOf(name.singular, "post", "", 201, FALSE, slots[3])],
       [key |-> KeyU, route |-> RouteOf(name.singular, "put", "/{id}", 202, FALSE, slots[4])],
       [key |-> KeyD, route |-> RouteOf(name.singular, "delete", "/{id}", 202, FALSE, slots[5])] >>

\* The inner loop of _get_routes: one append for each letter found in the key.
RECURSIVE AppendForLetters(_, _, _)
AppendForLetters(routes, item, letters) ==
    IF letters = <<>> THEN routes
    ELSE AppendForLetters(
            IF Contains(item.key, Head(letters)) THEN Append(routes, item.route) ELSE routes,
            item, Tail(letters))

\* The outer loop of _get_routes, over the items of the route map.
RECURSIVE GetRoutesLoop(_, _, _)
GetRoutesLoop(routes, items, option) ==
    IF items = <<>> THEN routes
    ELSE GetRoutesLoop(AppendForLetters(routes, Head(items), option), Tail(items), option)

\* _get_routes that takes a route when its whole key is found in the option.
RECURSIVE WholeKeyLoop(_, _, _)
WholeKeyLoop(routes, items, option) ==
    IF items = <<>> THEN routes
    ELSE WholeKeyLoop(
            IF \E i \in 1..Len(option) :
                    i + Len(Head(items).key) - 1 <= Len(option)
                    /\ SubSeq(option, i, i + Len(Head(items).key) - 1) = Head(items).key
            THEN Append(routes, Head(items).route) ELSE routes,
            Tail(items), option)

\* _get_routes that walks the letters of the option first.
RECURSIVE LettersFirstLoop(_, _, _)
LettersFirstLoop(routes, items, option) ==
    IF option = <<>> THEN routes
    ELSE LettersFirstLoop(
            routes \o SelectSeq([i \in DOMAIN items |-> items[i].route],
                                LAMBDA r : \E i \in DOMAIN items :
                                    items[i].route = r /\ Contains(items[i].key, Head(option))),
            items, Tail(option))

get_routes_WholeKey(route_map, option) == WholeKeyLoop(<<>>, route_map, option)

get_routes_LettersFirst(route_map, option) == LettersFirstLoop(<<>>, route_map, option)

\* _get_routes that takes, for each letter, the first route whose key has it.
get_routes_OnePerLetter(route_map, option) ==
    LET first(letter) == CHOOSE i \in DOMAIN route_map :
                             /\ Contains(route_map[i].key, letter)
                             /\ \A j \in 1..(i - 1) : ~Contains(route_map[j].key, letter)
        taken == {first(option[k]) : k \in DOMAIN option}
        items == SelectSeq(route_map, LAMBDA item :
                    \E i \in taken : route_map[i] = item)
    IN [i \in DOMAIN items |-> items[i].route]

\* AddRouteTasks._get_routes
get_routes(route_map, option) == GetRoutesLoop(<<>>, route_map, option)

(***************************************************************************)
(* Imports and the file contents (cli/commands/add.py).  A text is the     *)
(* sequence of its lines.                                                  *)
(***************************************************************************)
\* "\n".join(texts)
RECURSIVE JoinLines(_)
JoinLines(texts) ==
    IF texts = <<>> THEN <<"">>
    ELSE IF Len(texts) = 1 THEN texts[1]
    ELSE texts[1] \o JoinLines(Tail(texts))

\* text.rstrip("\n")
RECURSIVE RStripNewlines(_)
RStripNewlines(text) ==
    IF Len(text) > 1 /\ text[Len(text)] = ""
    THEN RStripNewlines(SubSeq(text, 1, Len(text) - 1))
    ELSE text

\* A list without its repeated items, first occurrences kept.
RECURSIVE Dedup(_)
Dedup(items) ==
    IF items = <<>> THEN <<>>
    ELSE LET front == Dedup(SubSeq(items, 1, Len(items) - 1))
             last == items[Len(items)]
         IN IF Contains(front, last) THEN front ELSE Append(front, last)

\* Import(root=..., modules=..., items=..., add_dot=...)
Import(root, modules, items, add_dot) ==
    [root |-> root, modules |-> modules, items |-> items, add_dot |-> add_dot]

\* One import statement.
ImportLine(imp) ==
    "from " \o imp.root \o (IF imp.add_dot THEN "." ELSE "") \o JoinStr(imp.modules, ".")
    \o " import " \o JoinStr(Dedup(imp.items), ", ")

\* The statements of one group; an Import without items gives none.
GroupLines(group) ==
    LET kept == SelectSeq(group, LAMBDA imp : imp.items # <<>>)
    IN [i \in DOMAIN kept |-> ImportLine(kept[i])]

\* Imports(items=groups).to_str(): the groups, a blank line between two of
\* them, and a newline at the end.
RECURSIVE ImportsToStr(_)
ImportsToStr(groups) ==
    IF groups = <<>> THEN <<"">>
    ELSE IF GroupLines(Head(groups)) = <<>> THEN ImportsToStr(Tail(groups))
    ELSE IF \A i \in DOMAIN Tail(groups) : GroupLines(Tail(groups)[i]) = <<>>
         THEN GroupLines(Head(groups)) \o <<"">>
    ELSE GroupLines(Head(groups)) \o <<"">> \o ImportsToStr(Tail(groups))

\* RouteImports.BASE / AUTH / ZENTRA / FASTAPI
RouteImportsBASE ==
    << Import("app", <<"core", "dependencies">>, <<"DB_DEPEND">>, TRUE),
       Import("app", <<"db_models">>, <<"CONNECT">>, TRUE) >>
RouteImportsAUTH == << Import("app", <<"auth">>, <<"ACTIVE_USER_DEPEND">>, TRUE) >>
RouteImportsZENTRA ==
    << Import("zentra_api", <<"responses">>, <<"SuccessMsgResponse", "get_response_models">>, TRUE) >>
RouteImportsFASTAPI ==
    << Import("fastapi", <<>>, <<"APIRouter", "HTTPException", "status">>, FALSE) >>

\* ROUTE_RESPONSE_MODEL_BLACKLIST
ROUTE_RESPONSE_MODEL_BLACKLIST == {None, "SuccessMsgResponse"}

\* route_imports(add_auth): base is the list RouteImports.BASE.value holds at
\* the call; the call extends that very list.
route_imports(add_auth, base) ==
    LET extended == IF add_auth THEN base \o RouteImportsAUTH ELSE base
    IN [base |-> extended,
        groups |-> <<extended, RouteImportsZENTRA, RouteImportsFASTAPI>>]

\* str.capitalize() on the words of the model
Capitalize(s) == TitleTable[s]

\* create_api_router(name)
create_api_router(name) ==
    "router = APIRouter(prefix=\"/" \o Lower(name) \o "\", tags=[\"" \o Capitalize(name) \o "\"])"

\* list.insert(1, x)
Insert1(list, x) ==
    IF list = <<>> THEN <<x>> ELSE <<Head(list)>> \o <<x>> \o Tail(list)

\* The exception a call ends with.
TypeError == "TypeError"

\* AddRouteTasks._create_init_content(routes) on the object obj, in a process
\* whose RouteImports.BASE.value is base.  The imports are made first, and
\* route_imports has extended the base by then.  The list of route blocks
\* calls route.to_str(self.name) for every route, and Route.to_str takes no
\* argument but self: with a route in the list the call raises TypeError and
\* init_content keeps the value it had.  With no route the text is stored.
create_init_content(obj, routes, base) ==
    LET raw_models == [i \in DOMAIN routes |-> routes[i].response_model]
        response_models == SelectSeq(raw_models, LAMBDA m : m \notin ROUTE_RESPONSE_MODEL_BLACKLIST)
        raw_schemas == [i \in DOMAIN routes |-> routes[i].schema_model]
        schema_models == SelectSeq(raw_schemas, LAMBDA m : m # None)
        add_auth == \E i \in DOMAIN routes : routes[i].auth
        folder_imports == << Import(".", <<"responses">>, response_models, FALSE),
                             Import(".", <<"schema">>, schema_models, FALSE) >>
        imports == route_imports(add_auth, base)
        file_imports == ImportsToStr(Insert1(imports.groups, folder_imports))
    IN IF routes # <<>>
       THEN [raised |-> TypeError, obj |-> obj, base |-> imports.base]
       ELSE [raised |-> None,
             obj |-> [obj EXCEPT !.init_content =
                         JoinLines(<< file_imports,
                                      <<"">>,
                                      <<obj.api_route_str>>,
                                      <<"", "">>,
                                      JoinLines(<<>>) >>)],
             base |-> imports.base]

\* Route.response_model_class(name)
response_model_class(r, name) ==
    LET title == Title(name.singular)
        payload == IF r.method = "get" /\ r.multi THEN "list[" \o title \o "]"
                   ELSE IF r.method = "get" THEN title
                   ELSE title \o "ID"
        verb == IF r.method = "get" THEN "retrieving"
                ELSE IF r.method = "post" THEN "creating" ELSE "updating"
        what == IF r.method = "get" /\ r.multi THEN "a list of " \o name.plural
                ELSE "a " \o name.singular
    IN << "class " \o r.response_model \o "(SuccessResponse[" \o payload \o "]):",
          indent("\"\"\"A response for " \o verb \o " " \o what \o ".\"\"\""),
          indent("pass") >>

\* _create_responses_content that keeps the DELETE route.
create_responses_content_WithDelete(name, routes) ==
    LET title == Title(name.singular)
        schema_models == <<title, title \o "ID">>
        response_classes == [i \in DOMAIN routes |-> response_model_class(routes[i], name)]
        file_imports ==
            << << Import("app", <<"api", name.plural, "schema">>, schema_models, TRUE) >>,
               << Import("zentra_api", <<"responses">>, <<"SuccessResponse">>, TRUE) >> >>
    IN RStripNewlines(
          JoinLines(<< ImportsToStr(file_imports),
                       <<"">>,
                       JoinLines([i \in DOMAIN response_classes |->
                                     response_classes[i] \o <<"", "">>]) >>))
       \o <<"">>

\* AddRouteTasks._create_responses_content: the text it stores in response_content.
create_responses_content(name, routes) ==
    LET title == Title(name.singular)
        schema_models == <<title, title \o "ID">>
        kept == SelectSeq(routes, LAMBDA r : r.method # "delete")
        response_classes == [i \in DOMAIN kept |-> response_model_class(kept[i], name)]
        file_imports ==
            << << Import("app", <<"api", name.plural, "schema">>, schema_models, TRUE) >>,
               << Import("zentra_api", <<"responses">>, <<"SuccessResponse">>, TRUE) >> >>
    IN RStripNewlines(
          JoinLines(<< ImportsToStr(file_imports),
                       <<"">>,
                       JoinLines([i \in DOMAIN response_classes |->
                                     response_classes[i] \o <<"", "">>]) >>))
       \o <<"">>

(***************************************************************************)
(* SpecGen: the generator's pure steps on a name and an option drawn from  *)
(* bounded sets.                                                           *)
(***************************************************************************)
RawNames == {"project", "projects", "Projects", " child ", "children", "product", "products "}

\* RouteOptions, each member's value as its letters.
RouteOptions ==
    { <<"c", "r", "u", "d">>, <<"c", "r">>, <<"c", "u">>, <<"c", "d">>, <<"r", "u">>,
      <<"r", "d">>, <<"u", "d">>, <<"c", "r", "u">>, <<"c", "r", "d">>,
      <<"c", "u", "d">>, <<"r", "u", "d">> }

\* The parameter sets of the five routes of a name, in the order of the
\* route dictionary.
RouteParamSets(name) ==
    LET create == <<name.singular, set_schema_model("post", name.singular)>>
        update == <<name.singular, set_schema_model("put", name.singular)>>
        db == RouteParametersDB_DEPEND
        auth == RouteParametersAUTH_DEPEND
    IN << {db, auth},
          {RouteParametersID, db, auth},
          {create, db, auth},
          {RouteParametersID, update, db, auth},
          {RouteParametersID, db, auth} >>

\* The slot orders one process can give the five parameter sets: any order
\* for each set, and the same order for the single GET and the DELETE, which
\* are built on the same set in the same way.
SlotChoices(name) ==
    LET sets == RouteParamSets(name)
    IN {<<r1, r2, c, u, r2>> :
          r1 \in Orderings(sets[1]), r2 \in Orderings(sets[2]),
          c \in Orderings(sets[3]), u \in Orderings(sets[4])}

InitGen ==
    /\ gname \in RawNames
    /\ gopt \in RouteOptions
    /\ gstored = NoName
    /\ gmap = <<>>
    /\ groutes = <<>>
    /\ gstage = "new"
    /\ IdleBut("gen")

\* AddSetOfRoutes.__init__, its first line: store_name(name.lower().strip())
StoreName ==
    /\ gstage = "new"
    /\ gstored' = store_name(Strip(Lower(gname)))
    /\ gstage' = "named"
    /\ UNCHANGED <<gname, gopt, gmap, groutes, notGenVars>>

\* AddRouteTasks.__init__: route_map = route_dict_set(name)
BuildRouteMap ==
    /\ gstage = "named"
    /\ \E slots \in SlotChoices(gstored) :
         gmap' = route_dict_set(gstored, slots)
    /\ gstage' = "mapped"
    /\ UNCHANGED <<gname, gopt, gstored, groutes, notGenVars>>

\* routes = self._get_routes()
GetRoutes ==
    /\ gstage = "mapped"
    /\ groutes' = get_routes(gmap, gopt)
    /\ gstage' = "resolved"
    /\ UNCHANGED <<gname, gopt, gstored, gmap, notGenVars>>

NextGen == StoreName \/ BuildRouteMap \/ GetRoutes

SpecGen == InitGen /\ [][NextGen]_vars

(***************************************************************************)
(* The add-routeset orchestrator (AddSetOfRoutes, AddRouteTasks) and the   *)
(* folders it writes.  A file is [exists, text]; a folder is [exists,      *)
(* files].                                                                 *)
(***************************************************************************)
\* RouteFile.values()
RouteFileValues == <<"__init__.py", "schema.py", "responses.py">>
RouteFileNames == Range(RouteFileValues)

\* RouteErrorCodes.FOLDER_EXISTS and RouteSuccessCodes.CREATED
FOLDER_EXISTS == "FOLDER_EXISTS"
CREATED == "CREATED"

\* A file is [exists, text]; a file of no length has the empty text.
NoFile == [exists |-> FALSE, text |-> <<>>]
EmptyFile == [exists |-> TRUE, text |-> <<"">>]
NoFolder == [exists |-> FALSE, files |-> [f \in RouteFileNames |-> NoFile]]
EmptyFolder == [exists |-> TRUE, files |-> [f \in RouteFileNames |-> NoFile]]
\* A folder left by an earlier generation.
OldText == <<"# old", "">>
OldFolder ==
    [exists |-> TRUE,
     files |-> [f \in RouteFileNames |-> [exists |-> TRUE, text |-> OldText]]]

FolderNames == {pr[2] : pr \in KnownPairs}

\* get_route_folder(name, root): the folder under the one root of the model.
get_route_folder(name) == name.plural

\* os.makedirs(path, exist_ok=True)
makedirs(files, path) ==
    IF files[path].exists THEN files ELSE [files EXCEPT ![path] = EmptyFolder]

\* open(Path(path, file), "w"): the file is made, or cut to no length.
open_w(files, path, file) == [files EXCEPT ![path].files[file] = EmptyFile]

\* AddRouteTasks._create_route_files on the folder path: the folder is made
\* if it is not there, and each file of RouteFile.values() is opened for
\* writing and closed.
RECURSIVE OpenEach(_, _, _)
OpenEach(files, path, names) ==
    IF names = <<>> THEN files
    ELSE OpenEach(open_w(files, path, Head(names)), path, Tail(names))

create_route_files(files, path) == OpenEach(makedirs(files, path), path, RouteFileValues)

\* The folder _create_route_files leaves where none was: the three files,
\* each of no length.
NewFolder == create_route_files([f \in FolderNames |-> NoFolder], "projects")["projects"]

\* None as the value of a content attribute: a text has a line, None has none.
NoContent == <<>>

\* RouteFilepaths(root): the paths of the three files of a route folder, each
\* the folder and the name of the file.
RouteFilepaths(root) ==
    [init_file |-> <<root, "__init__.py">>,
     schema_file |-> <<root, "schema.py">>,
     responses_file |-> <<root, "responses.py">>]

\* A route map with, for the parameters of each route, their members: the
\* set Route.model_post_init takes the list from.  list(set) gives the members
\* in the order of the hashes of the process, for the five routes any of
\* SlotChoices.  The orchestrator and the synthesizers read the parameters of
\* no route: the one call that renders them, route.to_str(self.name) in
\* _create_init_content, raises before it does.  So their objects keep the
\* members alone.
ParameterMembers(route_map) ==
    [i \in DOMAIN route_map |->
        [key |-> route_map[i].key,
         route |-> [route_map[i].route EXCEPT !.parameters = Range(@)]]]

\* One of the slot orders of SlotChoices(name).
AnySlots(name) ==
    LET sets == RouteParamSets(name)
    IN [i \in DOMAIN sets |-> CHOOSE order \in Orderings(sets[i]) : TRUE]

\* AddRouteTasks.__init__, once the configuration file has been read.
AddRouteTasks(name, option) ==
    [name |-> name, option |-> option,
     route_map |-> ParameterMembers(route_dict_set(name, AnySlots(name))),
     api_route_str |-> create_api_router(name.plural),
     route_path |-> get_route_folder(name),
     asset_paths |-> RouteFilepaths(get_route_folder(name)),
     init_content |-> NoContent, schema_content |-> NoContent,
     response_content |-> NoContent]

\* check_folder_exists that sees a folder only when a file is in it.
check_folder_exists_HasFiles(files, obj) ==
    LET folder == files[get_route_folder(obj.name)]
    IN folder.exists /\ \E f \in RouteFileNames : folder.files[f].exists

\* check_folder_exists that never sees the folder.
check_folder_exists_Never(files, obj) == FALSE

\* AddSetOfRoutes.check_folder_exists
check_folder_exists(files, obj) == files[get_route_folder(obj.name)].exists

\* get_tasks_for_set that makes the folder before it synthesizes the contents.
get_tasks_for_set_FolderFirst(files, obj, base) ==
    LET init == create_init_content(obj, get_routes(obj.route_map, obj.option), base)
    IN [raised |-> init.raised, obj |-> init.obj, base |-> init.base,
        tasks |-> <<"_update_files">>, files |-> makedirs(files, obj.route_path)]

\* AddRouteTasks.get_tasks_for_set in a process whose RouteImports.BASE.value
\* is base: the exception it raises or the task list it returns, the object
\* and the base after it, and the file system, which it only reads.
get_tasks_for_set(files, obj, base) ==
    LET first == IF ~files[obj.route_path].exists THEN <<"_create_route_files">> ELSE <<>>
        routes == get_routes(obj.route_map, obj.option)
        init == create_init_content(obj, routes, base)
    IN IF init.raised # None
       THEN [raised |-> init.raised, obj |-> init.obj, base |-> init.base,
             tasks |-> <<>>, files |-> files]
       ELSE [raised |-> None,
             obj |-> [init.obj EXCEPT !.response_content =
                         create_responses_content(obj.name, routes)],
             base |-> init.base,
             tasks |-> first \o <<"_update_files">>, files |-> files]

\* AddRouteTasks._create_schema_content(routes): its body is `pass`, so the
\* attribute schema_content keeps the value it had.
create_schema_content(schema_content, name, routes) == schema_content

(***************************************************************************)
(* Spec: add-routeset invocations on one root, one after the other, each   *)
(* in a process of its own.                                                *)
(***************************************************************************)
Procs == 1..NumInvocations

OrchNames == {"projects", "Project", " child "}
OrchOptions == {<<"c", "r", "u", "d">>, <<"r", "d">>, <<"c", "u">>}

NoObject == [name |-> NoName]

\* What the model remembers of an invocation: whether its existence check
\* found the folder absent, the calls of the file system that wrote, the
\* tasks that ran, and the exception that ended it.
NoHist == [absent |-> FALSE, writes |-> 0, ran |-> <<>>, raised |-> None]

Init ==
    /\ fs \in [FolderNames -> {NoFolder, EmptyFolder, NewFolder, OldFolder}]
    /\ pc = [p \in Procs |-> "idle"]
    /\ self = [p \in Procs |-> NoObject]
    /\ tasks = [p \in Procs |-> [list |-> <<>>, step |-> 0]]
    /\ exit_code = [p \in Procs |-> None]
    /\ hist = [p \in Procs |-> NoHist]
    /\ IdleBut("orch")

\* The invocations run one after the other.
Turn(p) == \A q \in Procs : q < p => pc[q] \in {"exit", "raised"}

\* AddSetOfRoutes(name, option, root): __init__
NewAddSetOfRoutes(p) ==
    /\ pc[p] = "idle"
    /\ \E raw \in OrchNames, option \in OrchOptions :
         LET name == store_name(Strip(Lower(raw)))
         IN self' = [self EXCEPT ![p] = AddRouteTasks(name, option)]
    /\ pc' = [pc EXCEPT ![p] = "built"]
    /\ UNCHANGED <<fs, tasks, exit_code, hist, notOrchVars>>

\* AddSetOfRoutes(name, option, root) raises: AddRouteTasks.__init__ reads the
\* project's configuration file, and the read or its parsing fails.  No
\* object is built and build() is never called.
NewAddSetOfRoutesRaises(p) ==
    /\ pc[p] = "idle"
    /\ pc' = [pc EXCEPT ![p] = "raised"]
    /\ hist' = [hist EXCEPT ![p].raised = "config"]
    /\ UNCHANGED <<fs, self, tasks, exit_code, notOrchVars>>

\* build(), its first statement: the folder is there, typer.Exit(FOLDER_EXISTS)
BuildFolderExists(p) ==
    /\ pc[p] = "built"
    /\ check_folder_exists(fs, self[p])
    /\ pc' = [pc EXCEPT ![p] = "exit"]
    /\ exit_code' = [exit_code EXCEPT ![p] = FOLDER_EXISTS]
    /\ UNCHANGED <<fs, self, tasks, hist, notOrchVars>>

\* build(), its first statement: the folder is not there
BuildFolderAbsent(p) ==
    /\ pc[p] = "built"
    /\ ~check_folder_exists(fs, self[p])
    /\ pc' = [pc EXCEPT ![p] = "checked"]
    /\ hist' = [hist EXCEPT ![p].absent = ~fs[get_route_folder(self[p].name)].exists]
    /\ UNCHANGED <<fs, self, tasks, exit_code, notOrchVars>>

\* tasks = self.route_tasks.get_tasks_for_set().  The call raises: the
\* exception leaves build(), whose loop over the tasks and whose
\* typer.Exit(CREATED) are not reached.
GetTasksForSet(p) ==
    /\ pc[p] = "checked"
    /\ LET done == get_tasks_for_set(fs, self[p], RouteImportsBASE)
       IN /\ self' = [self EXCEPT ![p] = done.obj]
          /\ fs' = done.files
          /\ IF done.raised # None
             THEN /\ pc' = [pc EXCEPT ![p] = "raised"]
                  /\ hist' = [hist EXCEPT ![p].raised = done.raised,
                                          ![p].writes = IF done.files = fs THEN @ ELSE @ + 1]
                  /\ UNCHANGED tasks
             ELSE /\ pc' = [pc EXCEPT ![p] = "running"]
                  /\ tasks' = [tasks EXCEPT ![p] = [list |-> done.tasks, step |-> 0]]
                  /\ UNCHANGED hist
    /\ UNCHANGED <<exit_code, notOrchVars>>

\* One step of build() in invocation p.
BuildStep(p) ==
    \/ BuildFolderExists(p)
    \/ BuildFolderAbsent(p)
    \/ GetTasksForSet(p)

Next ==
    \E p \in Procs :
        \/ Turn(p) /\ NewAddSetOfRoutes(p)
        \/ Turn(p) /\ NewAddSetOfRoutesRaises(p)
        \/ BuildStep(p)

Spec == Init /\ [][Next]_vars

(***************************************************************************)
(* SpecRace: two add-routeset invocations started in two processes on one  *)
(* root.  Their steps interleave: a step is one call of the file system,   *)
(* or the work an invocation does on its own objects between two calls.    *)
(***************************************************************************)
Racers == {1, 2}

NextRace ==
    \E p \in Racers :
        \/ NewAddSetOfRoutes(p)
        \/ BuildStep(p)

SpecRace == Init /\ [][NextRace]_vars

(***************************************************************************)
(* SpecSynth: the content synthesizers of AddRouteTasks, called one after  *)
(* the other in one process, on one object or on several.                  *)
(***************************************************************************)
MaxSyntheses == 3   \* synthesizer calls in one process

SynthNames == {"product", "children"}

SynthObjects ==
    {AddRouteTasks(store_name(raw), option) : raw \in SynthNames, option \in RouteOptions}

NoCalls == [init |-> 0, raised |-> 0, schema |-> 0, responses |-> 0]

CallsMade == scalls.init + scalls.schema + scalls.responses

InitSynth ==
    /\ sobj \in SynthObjects
    /\ sbase = RouteImportsBASE
    /\ scalls = NoCalls
    /\ IdleBut("synth")

\* AddRouteTasks(name, root, option): one more object in the same process.
NewAddRouteTasks ==
    /\ CallsMade > 0
    /\ CallsMade < MaxSyntheses
    /\ \E raw \in SynthNames, option \in RouteOptions :
         LET name == store_name(raw)
         IN sobj' = AddRouteTasks(name, option)
    /\ UNCHANGED <<sbase, scalls, notSynthVars>>

\* self._create_init_content(self._get_routes()): what the call leaves of the
\* object and of the base, whether it returns or raises.
CreateInitContent ==
    /\ CallsMade < MaxSyntheses
    /\ LET done == create_init_content(sobj, get_routes(sobj.route_map, sobj.option), sbase)
       IN /\ sobj' = done.obj
          /\ sbase' = done.base
          /\ scalls' = [scalls EXCEPT !.init = scalls.init + 1,
                                      !.raised = IF done.raised # None THEN @ + 1 ELSE @]
    /\ UNCHANGED notSynthVars

\* self._create_schema_content(self._get_routes())
CreateSchemaContent ==
    /\ CallsMade < MaxSyntheses
    /\ sobj' = [sobj EXCEPT !.schema_content =
                   create_schema_content(sobj.schema_content, sobj.name,
                                         get_routes(sobj.route_map, sobj.option))]
    /\ scalls' = [scalls EXCEPT !.schema = scalls.schema + 1]
    /\ UNCHANGED <<sbase, notSynthVars>>

\* self._create_responses_content(self._get_routes())
CreateResponsesContent ==
    /\ CallsMade < MaxSyntheses
    /\ sobj' = [sobj EXCEPT !.response_content =
                   create_responses_content(sobj.name,
                                            get_routes(sobj.route_map, sobj.option))]
    /\ scalls' = [scalls EXCEPT !.responses = scalls.responses + 1]
    /\ UNCHANGED <<sbase, notSynthVars>>

NextSynth ==
    \/ NewAddRouteTasks
    \/ CreateInitContent
    \/ CreateSchemaContent
    \/ CreateResponsesContent

SpecSynth == InitSynth /\ [][NextSynth]_vars

(***************************************************************************)
(* SpecKey: the new-key command (cli/main.py, auth/utils.py).              *)
(***************************************************************************)
\* JWTAlgorithm and JWTSize (auth/enums.py)
JWTAlgorithm == {"HS256", "HS384", "HS512"}
JWTSize == [HS256 |-> 256, HS384 |-> 384, HS512 |-> 512]

\* string.ascii_letters + string.digits + "-_"
chars_to_use ==
    << "a", "b", "c", "d", "e", "f", "g", "h", "i", "j", "k", "l", "m",
       "n", "o", "p", "q", "r", "s", "t", "u", "v", "w", "x", "y", "z",
       "A", "B", "C", "D", "E", "F", "G", "H", "I", "J", "K", "L", "M",
       "N", "O", "P", "Q", "R", "S", "T", "U", "V", "W", "X", "Y", "Z",
       "0", "1", "2", "3", "4", "5", "6", "7", "8", "9", "-", "_" >>

\* generate_secret_key: key_length = size // 8
key_length(size) == size \div 8

\* secrets.choice(chars_to_use): the characters a draw can give, each of the
\* sequence.
secrets_choice == Range(chars_to_use)

\* Of a key the model keeps the number of its characters and the last of
\* them: every character is drawn like the last one.
EmptyKey == [length |-> 0, last |-> ""]

\* "".join of a key and one more character
JoinChar(key, ch) == [length |-> key.length + 1, last |-> ch]

InitKey ==
    /\ kalgo \in JWTAlgorithm
    /\ kkey = EmptyKey
    /\ kout = NoKey
    /\ IdleBut("key")

\* generate_secret_key: one more character of the generator the join consumes
ChooseChar ==
    /\ kout = NoKey
    /\ kkey.length < key_length(JWTSize[kalgo])
    /\ \E ch \in secrets_choice : kkey' = JoinChar(kkey, ch)
    /\ UNCHANGED <<kalgo, kout, notKeyVars>>

\* new_key: key = generate_secret_key(JWTSize[algo].value); print(key)
PrintKey ==
    /\ kout = NoKey
    /\ kkey.length = key_length(JWTSize[kalgo])
    /\ kout' = kkey
    /\ UNCHANGED <<kalgo, kkey, notKeyVars>>

NextKey == ChooseChar \/ PrintKey

SpecKey == InitKey /\ [][NextKey]_vars

(***************************************************************************)
(* SpecSetup: the init command (cli/commands/setup.py), invocations on one *)
(* root, one after the other.  A project directory is [exists, entries,    *)
(* env]: the names in it, and the state of its environment file.           *)
(***************************************************************************)
NumSetups == 2      \* init invocations, run one after the other

\* SetupSuccessCodes
COMPLETE == 10
ALREADY_CONFIGURED == 11

ENV_FILENAME == ".env.backend"

\* What TEMPLATE_DIR holds at its top.
TemplateEntries == {".env.template", "app"}

ProjectNames == {"test_project", "api"}
SetupProcs == 1..NumSetups

NoDir == [exists |-> FALSE, entries |-> {}, env |-> "absent"]
EmptyDir == [exists |-> TRUE, entries |-> {}, env |-> "absent"]
\* A directory somebody put a file in.
UsedDir == [exists |-> TRUE, entries |-> {"test.txt"}, env |-> "absent"]

\* A directory an earlier build left its first file in.
LeftoverDir == [exists |-> TRUE, entries |-> {"pyproject.toml"}, env |-> "absent"]

\* Setup.project_exists that takes a directory for a project once it holds the
\* environment file.
project_exists_WithEnvFile(dirs, name) ==
    dirs[name].exists /\ ENV_FILENAME \in dirs[name].entries

\* Setup.project_exists that takes any existing directory for a project.
project_exists_AnyDirectory(dirs, name) == dirs[name].exists

\* Setup.project_exists
project_exists(dirs, name) ==
    IF dirs[name].exists
    THEN Cardinality(dirs[name].entries) > 0
    ELSE FALSE

\* SetupTasks.get_tasks with the last two tasks the other way round.
get_tasks_EnvFirst == <<"_make_toml", "_update_env", "_move_assets">>

\* SetupTasks.get_tasks: the list it returns
get_tasks == <<"_make_toml", "_move_assets", "_update_env">>

InitSetup ==
    /\ psfs \in [ProjectNames -> {NoDir, EmptyDir, UsedDir, LeftoverDir}]
    /\ pspc = [p \in SetupProcs |-> "idle"]
    /\ psname = [p \in SetupProcs |-> None]
    /\ pstasks = [p \in SetupProcs |-> <<>>]
    /\ psexit = [p \in SetupProcs |-> 0]
    /\ psran = [p \in SetupProcs |-> <<>>]
    /\ IdleBut("setup")

\* The invocations run one after the other.
SetupTurn(p) == \A q \in SetupProcs : q < p => pspc[q] \in {"exit", "raised"}

\* Setup(project_name)
NewSetup(p) ==
    /\ pspc[p] = "idle"
    /\ SetupTurn(p)
    /\ \E name \in ProjectNames : psname' = [psname EXCEPT ![p] = name]
    /\ pspc' = [pspc EXCEPT ![p] = "built"]
    /\ UNCHANGED <<psfs, pstasks, psexit, psran, notSetupVars>>

\* build(): the project exists, typer.Exit(ALREADY_CONFIGURED)
SetupAlreadyConfigured(p) ==
    /\ pspc[p] = "built"
    /\ project_exists(psfs, psname[p])
    /\ pspc' = [pspc EXCEPT ![p] = "exit"]
    /\ psexit' = [psexit EXCEPT ![p] = ALREADY_CONFIGURED]
    /\ UNCHANGED <<psfs, psname, pstasks, psran, notSetupVars>>

\* build(): tasks = self.setup_tasks.get_tasks(), which makes the directory
SetupGetTasks(p) ==
    /\ pspc[p] = "built"
    /\ ~project_exists(psfs, psname[p])
    /\ psfs' = [psfs EXCEPT ![psname[p]].exists = TRUE]
    /\ pstasks' = [pstasks EXCEPT ![p] = get_tasks]
    /\ pspc' = [pspc EXCEPT ![p] = "running"]
    /\ UNCHANGED <<psname, psexit, psran, notSetupVars>>

\* The loop of build() is at this task.
SetupRunning(p, task) ==
    /\ pspc[p] = "running"
    /\ pstasks[p] # <<>>
    /\ Head(pstasks[p]) = task

\* The loop of build() has run this task.
SetupRan(p, task) ==
    /\ pstasks' = [pstasks EXCEPT ![p] = Tail(pstasks[p])]
    /\ psran' = [psran EXCEPT ![p] = Append(psran[p], task)]

\* SetupTasks._make_toml
MakeToml(p) ==
    /\ SetupRunning(p, "_make_toml")
    /\ psfs' = [psfs EXCEPT ![psname[p]].entries = @ \cup {"pyproject.toml"}]
    /\ SetupRan(p, "_make_toml")
    /\ UNCHANGED <<pspc, psname, psexit, notSetupVars>>

\* SetupTasks._make_toml raises in file_builder.update, after open(toml_path,
\* "x") made the file.  The exception leaves build(); nothing is removed.
MakeTomlRaises(p) ==
    /\ SetupRunning(p, "_make_toml")
    /\ psfs' = [psfs EXCEPT ![psname[p]].entries = @ \cup {"pyproject.toml"}]
    /\ pspc' = [pspc EXCEPT ![p] = "raised"]
    /\ UNCHANGED <<psname, pstasks, psexit, psran, notSetupVars>>

\* SetupTasks._move_assets raises in os.rename, after copytree copied the
\* template.  The exception leaves build(); nothing is removed.
MoveAssetsRaises(p) ==
    /\ SetupRunning(p, "_move_assets")
    /\ psfs' = [psfs EXCEPT ![psname[p]].entries = @ \cup TemplateEntries]
    /\ pspc' = [pspc EXCEPT ![p] = "raised"]
    /\ UNCHANGED <<psname, pstasks, psexit, psran, notSetupVars>>

\* SetupTasks._move_assets: copytree, then .env.template renamed
MoveAssets(p) ==
    /\ SetupRunning(p, "_move_assets")
    /\ psfs' = [psfs EXCEPT ![psname[p]].entries =
                   ((@ \cup TemplateEntries) \ {".env.template"}) \cup {ENV_FILENAME},
                              ![psname[p]].env = "template"]
    /\ SetupRan(p, "_move_assets")
    /\ UNCHANGED <<pspc, psname, psexit, notSetupVars>>

\* SetupTasks._update_env: the environment file read and written back
UpdateEnv(p) ==
    /\ SetupRunning(p, "_update_env")
    /\ ENV_FILENAME \in psfs[psname[p]].entries
    /\ psfs' = [psfs EXCEPT ![psname[p]].env = "updated"]
    /\ SetupRan(p, "_update_env")
    /\ UNCHANGED <<pspc, psname, psexit, notSetupVars>>

\* build(), after the last task: typer.Exit(COMPLETE)
SetupExitComplete(p) ==
    /\ pspc[p] = "running"
    /\ pstasks[p] = <<>>
    /\ pspc' = [pspc EXCEPT ![p] = "exit"]
    /\ psexit' = [psexit EXCEPT ![p] = COMPLETE]
    /\ UNCHANGED <<psfs, psname, pstasks, psran, notSetupVars>>

NextSetup ==
    \E p \in SetupProcs :
        \/ NewSetup(p)
        \/ SetupAlreadyConfigured(p)
        \/ SetupGetTasks(p)
        \/ MakeToml(p)
        \/ MakeTomlRaises(p)
        \/ MoveAssets(p)
        \/ MoveAssetsRaises(p)
        \/ UpdateEnv(p)
        \/ SetupExitComplete(p)

SpecSetup == InitSetup /\ [][NextSetup]_vars

(***************************************************************************)
(* The responses line of Route.to_str, checked under SpecRoute.            *)
(***************************************************************************)
RECURSIVE AscendingListOf(_)
\* The numbers of a set as a list in ascending order.
AscendingListOf(S) ==
    IF S = {} THEN <<>>
    ELSE LET least == CHOOSE m \in S : \A n \in S : m <= n
         IN <<least>> \o AscendingListOf(S \ {least})

\* Every responses= line there can be, for the codes in any order.
AllResponsesLines ==
    {indent("responses=get_response_models(" \o ListRepr(order) \o "),") :
        order \in UNION {Orderings(codes) : codes \in SUBSET (CodePool \cup {400, 401, 403})}}

\* The lines of a text that set responses=.
ResponsesLines(text) == SelectSeq(text, LAMBDA line : line \in AllResponsesLines)

\* C26: to_str renders the response codes in ascending order without
\* duplicates, and leaves the responses= line out exactly when the route has
\* no response codes; with no codes from the caller that is exactly a GET
\* with auth false.
C26_AscendingResponses ==
    Constructed =>
        LET lines == ResponsesLines(to_str(route))
            codes == Range(route.response_codes)
        IN /\ (codes = {}) <=> (lines = <<>>)
           /\ codes # {}
                => lines = <<indent("responses=get_response_models("
                                    \o ListRepr(AscendingListOf(codes)) \o "),")>>
           /\ rin.response_codes = <<>>
                => /\ (lines = <<>>) <=> (route.method = "get" /\ ~route.auth)
                   /\ (route.method = "get" /\ route.auth)
                        => route.response_codes = <<401, 403>>
                   /\ (route.method # "get" /\ route.auth)
                        => route.response_codes = <<400, 401, 403>>

(***************************************************************************)
(* SpecCrud: CRUD on one table (crud.py).  A row is [id, name, active]; the *)
(* table is the rows in the order a query gives them.  A returned value is *)
(* [none, rows]: None, one item, or the list of get_multiple.              *)
(***************************************************************************)
MaxCreates == 3     \* calls of create on the table
MaxWindow == 2      \* largest skip and largest limit given to get_multiple

RowNames == {"ann", "bob"}
RowIds == 1..MaxCreates

\* The data of create: every field of the row but the id the table gives.
CreateData == {[name |-> n, active |-> a] : n \in RowNames, a \in BOOLEAN}

\* data.model_dump(exclude_unset=True) of update: the fields that were set.
UpdateData ==
    {[f \in {} |-> TRUE]}
    \cup {[name |-> n] : n \in RowNames}
    \cup {[active |-> a] : a \in BOOLEAN}
    \cup CreateData

ReturnNone == [none |-> TRUE, rows |-> <<>>]
ReturnItem(row) == [none |-> FALSE, rows |-> <<row>>]
ReturnList(rows) == [none |-> FALSE, rows |-> rows]

\* The ids of the rows of a table.
IdsOf(table) == {table[i].id : i \in DOMAIN table}

\* CRUD._get: db.query(model).filter(model.id == id).first()
CRUD_get(table, id) ==
    LET found == SelectSeq(table, LAMBDA row : row.id = id)
    IN IF found = <<>> THEN ReturnNone ELSE ReturnItem(Head(found))

\* CRUD.create: the row added with the id the table gave it, and returned
CRUD_create(table, id, data) ==
    LET item == [id |-> id, name |-> data.name, active |-> data.active]
    IN [table |-> Append(table, item), return |-> ReturnItem(item)]

\* CRUD.get_multiple: db.query(model).offset(skip).limit(limit).all()
CRUD_get_multiple(table, skip, limit) ==
    LET last == IF skip + limit < Len(table) THEN skip + limit ELSE Len(table)
    IN ReturnList(SubSeq(table, skip + 1, last))

\* setattr(result, field, value) for every field of update_data
SetAttrs(row, update_data) ==
    [f \in DOMAIN row |-> IF f \in DOMAIN update_data THEN update_data[f] ELSE row[f]]

\* CRUD.update that writes the unset fields too, with their defaults.
CRUD_update_AllFields(table, id, update_data) ==
    IF CRUD_get(table, id).none THEN [table |-> table, return |-> ReturnNone]
    ELSE LET full == [f \in {"name", "active"} |->
                        IF f \in DOMAIN update_data THEN update_data[f]
                        ELSE IF f = "name" THEN "ann" ELSE TRUE]
             changed == [i \in DOMAIN table |->
                           IF table[i].id = id THEN SetAttrs(table[i], full) ELSE table[i]]
         IN [table |-> changed, return |-> CRUD_get(changed, id)]

\* CRUD.update
CRUD_update(table, id, update_data) ==
    IF CRUD_get(table, id).none THEN [table |-> table, return |-> ReturnNone]
    ELSE LET changed == [i \in DOMAIN table |->
                           IF table[i].id = id THEN SetAttrs(table[i], update_data)
                           ELSE table[i]]
         IN [table |-> changed, return |-> CRUD_get(changed, id)]

\* CRUD.delete that leaves the row in the table.
CRUD_delete_KeepsRow(table, id) == [table |-> table, return |-> CRUD_get(table, id)]

\* CRUD.delete
CRUD_delete(table, id) ==
    LET result == CRUD_get(table, id)
    IN [table |-> IF result.none THEN table
                  ELSE SelectSeq(table, LAMBDA row : row.id # id),
        return |-> result]

\* The largest id of a table, 0 for an empty one.
MaxId(table) ==
    IF table = <<>> THEN 0
    ELSE CHOOSE m \in IdsOf(table) : \A n \in IdsOf(table) : n <= m

NoCall == [op |-> "none"]

InitCrud ==
    /\ ctable = <<>>
    /\ cnext = 1
    /\ cop = NoCall
    /\ cres = ReturnNone
    /\ clive = {}
    /\ IdleBut("crud")

\* create(db, data): the table gives the row the next value of its sequence,
\* or one more than its largest id, as the database engine has it.
Create ==
    /\ cnext <= MaxCreates
    /\ \E data \in CreateData, id \in {cnext, MaxId(ctable) + 1} :
         LET done == CRUD_create(ctable, id, data)
         IN /\ ctable' = done.table
            /\ cres' = done.return
            /\ cop' = [op |-> "create", id |-> id, data |-> data]
            /\ clive' = clive \cup {id}
    /\ cnext' = cnext + 1

\* get(db, id)
Get ==
    /\ \E id \in RowIds :
         /\ cres' = CRUD_get(ctable, id)
         /\ cop' = [op |-> "get", id |-> id]
    /\ UNCHANGED <<ctable, cnext, clive>>

\* get_multiple(db, skip, limit)
GetMultiple ==
    /\ \E skip \in 0..MaxWindow, limit \in 0..MaxWindow :
         /\ cres' = CRUD_get_multiple(ctable, skip, limit)
         /\ cop' = [op |-> "get_multiple", skip |-> skip, limit |-> limit]
    /\ UNCHANGED <<ctable, cnext, clive>>

\* update(db, id, data)
Update ==
    /\ \E id \in RowIds, data \in UpdateData :
         LET done == CRUD_update(ctable, id, data)
         IN /\ ctable' = done.table
            /\ cres' = done.return
            /\ cop' = [op |-> "update", id |-> id, data |-> data]
    /\ UNCHANGED <<cnext, clive>>

\* delete(db, id)
Delete ==
    /\ \E id \in RowIds :
         LET done == CRUD_delete(ctable, id)
         IN /\ ctable' = done.table
            /\ cres' = done.return
            /\ cop' = [op |-> "delete", id |-> id]
            /\ clive' = clive \ {id}
    /\ UNCHANGED cnext

NextCrud ==
    \/ (Create /\ UNCHANGED notCrudVars)
    \/ (Get /\ UNCHANGED notCrudVars)
    \/ (GetMultiple /\ UNCHANGED notCrudVars)
    \/ (Update /\ UNCHANGED notCrudVars)
    \/ (Delete /\ UNCHANGED notCrudVars)

SpecCrud == InitCrud /\ [][NextCrud]_vars

(***************************************************************************)
(* Properties of the generator's pure steps, checked under SpecGen.        *)
(***************************************************************************)
\* How many times x occurs in the list s.
Count(s, x) == Cardinality({i \in DOMAIN s : s[i] = x})

\* A canonical route is matched when a letter of the option occurs in its key.
Matched(item, option) == \E i \in DOMAIN option : Contains(item.key, option[i])

MatchedItems(route_map, option) ==
    {i \in DOMAIN route_map : Matched(route_map[i], option)}

\* C3: _get_routes returns a canonical route iff some letter of the option
\* occurs in its key, each matched route exactly once, and as many routes as
\* are matched: 5 for crud, 2 for ud, 3 for cr.
C3_RoutesMatched ==
    gstage = "resolved" =>
        /\ \A i \in DOMAIN gmap :
              Count(groutes, gmap[i].route) = (IF Matched(gmap[i], gopt) THEN 1 ELSE 0)
        /\ Len(groutes) = Cardinality(MatchedItems(gmap, gopt))
        /\ (gopt = <<"c", "r", "u", "d">> => Len(groutes) = 5)
        /\ (gopt = <<"u", "d">> => Len(groutes) = 2)
        /\ (gopt = <<"c", "r">> => Len(groutes) = 3)

\* Option cr resolved: both read routes and the create route.
C3_Witness ==
    /\ gstage = "resolved"
    /\ gopt = <<"c", "r">>
    /\ Len(groutes) = 3
    /\ Count(groutes, gmap[1].route) = 1 /\ Count(groutes, gmap[2].route) = 1

\* The place in the canonical dictionary of a route.
KeyIndex(route_map, r) == CHOOSE i \in DOMAIN route_map : route_map[i].route = r

\* C4: the routes _get_routes returns are in the canonical dictionary order
\* r1, r2, c, u, d, whatever the order of the letters in the option.
C4_CanonicalOrder ==
    gstage = "resolved" =>
        /\ \A i \in DOMAIN groutes : \E k \in DOMAIN gmap : gmap[k].route = groutes[i]
        /\ \A i, j \in DOMAIN groutes :
              i < j => KeyIndex(gmap, groutes[i]) < KeyIndex(gmap, groutes[j])
        /\ (gopt = <<"c", "r">> =>
              groutes = <<gmap[1].route, gmap[2].route, gmap[3].route>>)

\* Option cr resolved to r1, r2, c: the letter c comes first, its route last.
C4_Witness ==
    /\ gstage = "resolved"
    /\ gopt = <<"c", "r">>
    /\ groutes = <<gmap[1].route, gmap[2].route, gmap[3].route>>
    /\ groutes[3].method = "post" /\ groutes[1].multi

\* C5: for every known pair (s, p), store_name(s) and store_name(p) are both
\* Name(singular=s, plural=p).
C5_StoreName ==
    gstage # "new" =>
        \A pr \in KnownPairs :
            Strip(Lower(gname)) \in {pr[1], pr[2]}
                => gstored = [singular |-> pr[1], plural |-> pr[2]]

\* The irregular singular " child " stored as child / children.
C5_Witness ==
    /\ gstage = "named" /\ gname = " child "
    /\ gstored = [singular |-> "child", plural |-> "children"]

(***************************************************************************)
(* Properties of the orchestrator, checked under Spec.                     *)
(***************************************************************************)
\* The folder an invocation is aimed at: {root}/app/api/{plural}.
TargetOf(p) == fs[self[p].name.plural]

\* C1: build() called when the target folder exists exits with FOLDER_EXISTS
\* and writes nothing: no file is created, truncated or modified, and no
\* task is run.
C1_ConflictWritesNothing ==
    /\ [][\A p \in Procs :
            (pc[p] = "built" /\ TargetOf(p).exists /\ pc'[p] # pc[p])
                => /\ pc'[p] = "exit"
                   /\ exit_code'[p] = FOLDER_EXISTS
                   /\ fs' = fs
                   /\ tasks'[p].list = <<>>]_vars
    /\ [](\A p \in Procs :
            exit_code[p] = FOLDER_EXISTS
                => pc[p] = "exit" /\ hist[p].writes = 0 /\ hist[p].ran = <<>>)

\* An invocation has met a folder of an earlier generation and left it as it was.
C1_Witness ==
    \E p \in Procs :
        /\ pc[p] = "exit" /\ exit_code[p] = FOLDER_EXISTS
        /\ TargetOf(p) = OldFolder
        /\ hist[p].writes = 0

\* Invocation p has ended: build() has exited or an exception has left it.
Ended(p) == pc[p] \in {"exit", "raised"}

\* Invocation p has ended and its existence check found the folder absent.
EndedOnAbsent(p) == Ended(p) /\ hist[p].absent

\* C2: build() called when the target folder does not exist ends by exiting
\* with CREATED, and then the folder exists and holds __init__.py,
\* responses.py and schema.py, __init__.py with the synthesized router text
\* and responses.py with the synthesized responses text.
C2_CreatedLayout ==
    \A p \in Procs :
        /\ EndedOnAbsent(p) => exit_code[p] = CREATED
        /\ exit_code[p] = CREATED =>
              /\ hist[p].absent
              /\ TargetOf(p).exists
              /\ \A f \in {"__init__.py", "responses.py", "schema.py"} :
                    TargetOf(p).files[f].exists
              /\ TargetOf(p).files["__init__.py"].text = self[p].init_content
              /\ TargetOf(p).files["responses.py"].text = self[p].response_content
              /\ Contains(self[p].init_content, self[p].api_route_str)
              /\ Contains(self[p].response_content,
                          "from zentra_api.responses import SuccessResponse")

(***************************************************************************)
(* More properties of the orchestrator, checked under Spec.                *)
(***************************************************************************)
\* A text with content: more than the empty text.
HasContent(text) == text # <<>> /\ text # <<"">>

Synthesized(p) ==
    /\ pc[p] = "running"
    /\ self[p].name # NoName
    /\ self[p].init_content # NoContent
    /\ self[p].response_content # NoContent

\* C22: no step changes the file system before the invocation that takes it
\* has normalized the name, resolved the routes and synthesized both
\* contents; an invocation that fails before that has written nothing and
\* leaves an absent target folder absent.
C22_NoWriteBeforeSynthesis ==
    /\ [][fs' # fs => \E p \in Procs : Synthesized(p) /\ hist'[p].writes = hist[p].writes + 1]_vars
    /\ [](\A p \in Procs :
            pc[p] \in {"idle", "built", "checked", "raised"} =>
                /\ hist[p].writes = 0
                /\ hist[p].ran = <<>>)
    /\ [][\A p \in Procs :
             pc'[p] = "raised" /\ pc[p] # "raised" => fs' = fs]_vars
    /\ [](\A p \in Procs :
            pc[p] = "raised" /\ hist[p].absent => TargetOf(p) = NoFolder)

\* The synthesis of the router content of a full-CRUD invocation for
\* "projects" failed after the check found the folder absent: the folder is
\* still absent and the invocation wrote nothing.
C22_Witness ==
    \E p \in Procs :
        /\ pc[p] = "raised"
        /\ hist[p].raised = TypeError
        /\ hist[p].absent
        /\ self[p].name.plural = "projects" /\ self[p].option = <<"c", "r", "u", "d">>
        /\ hist[p].writes = 0
        /\ fs["projects"] = NoFolder

(***************************************************************************)
(* Properties of the content synthesizers, checked under SpecSynth.        *)
(***************************************************************************)
\* The header of a response class.
ClassHeader(model, payload) == "class " \o model \o "(SuccessResponse[" \o payload \o "]):"

\* The response classes an option selects, in canonical order (list-GET,
\* single-GET, POST, PUT), by the letter that selects each.
CanonicalResponseClasses(name) ==
    LET one == Title(name.singular)
        many == Title(name.plural)
    IN << [letter |-> "r", header |-> ClassHeader("Get" \o many \o "Response", "list[" \o one \o "]")],
          [letter |-> "r", header |-> ClassHeader("Get" \o one \o "Response", one)],
          [letter |-> "c", header |-> ClassHeader("Create" \o one \o "Response", one \o "ID")],
          [letter |-> "u", header |-> ClassHeader("Update" \o one \o "Response", one \o "ID")] >>

ExpectedResponseClasses(name, option) ==
    LET kept == SelectSeq(CanonicalResponseClasses(name), LAMBDA c : Contains(option, c.letter))
    IN [i \in DOMAIN kept |-> kept[i].header]

\* Every header a class of the responses module can have, a class for the
\* DELETE route included.
ResponseClassHeaders(name) ==
    LET one == Title(name.singular)
        many == Title(name.plural)
    IN { ClassHeader(m, pl) :
           m \in { v \o n \o "Response" : v \in {"Get", "Create", "Update", "Delete"},
                                          n \in {one, many} }
                 \cup {None, "SuccessMsgResponse"},
           pl \in {one, one \o "ID", "list[" \o one \o "]"} }

\* The class headers of a text, in the order of the text.
ResponseClassesOf(text, name) ==
    SelectSeq(text, LAMBDA line : line \in ResponseClassHeaders(name))

\* The text ends with one newline and no more.
EndsWithOneNewline(text) ==
    /\ Len(text) >= 2
    /\ text[Len(text)] = ""
    /\ text[Len(text) - 1] # ""

\* C12: for every RouteOption the responses content holds one response class
\* for each selected route other than DELETE, in canonical order, and none
\* for the DELETE route (4 classes for crud, 2 for rd); the content ends with
\* exactly one newline.
C12_ResponseClasses ==
    sobj.response_content # NoContent =>
        LET text == sobj.response_content
            classes == ResponseClassesOf(text, sobj.name)
        IN /\ classes = ExpectedResponseClasses(sobj.name, sobj.option)
           /\ Count(text, indent("pass")) = Len(classes)
           /\ sobj.option = <<"c", "r", "u", "d">> => Len(classes) = 4
           /\ sobj.option = <<"r", "d">> => Len(classes) = 2
           /\ EndsWithOneNewline(text)

\* The responses content of full CRUD on "product": four classes.
C12_Witness ==
    /\ sobj.response_content # NoContent
    /\ sobj.name.plural = "products" /\ sobj.option = <<"c", "r", "u", "d">>
    /\ ResponseClassesOf(sobj.response_content, sobj.name)
         = << "class GetProductsResponse(SuccessResponse[list[Product]]):",
              "class GetProductResponse(SuccessResponse[Product]):",
              "class CreateProductResponse(SuccessResponse[ProductID]):",
              "class UpdateProductResponse(SuccessResponse[ProductID]):" >>

\* The stub classes schema synthesis is to give an option, by their headers.
ExpectedSchemaClasses(name, option) ==
    LET entity == Title(name.singular)
        stub(suffix) == "class " \o entity \o suffix \o "(BaseModel):"
    IN << stub("Base"), stub(""), stub("ID") >>
       \o (IF Contains(option, "c") THEN <<stub("Create")>> ELSE <<>>)
       \o (IF Contains(option, "u") THEN <<stub("Update")>> ELSE <<>>)

\* The headers a stub class of the schema module can have.
SchemaClassHeaders(name) ==
    { "class " \o Title(name.singular) \o suffix \o "(BaseModel):" :
        suffix \in {"Base", "", "ID", "Create", "Update"} }

\* C13: for every RouteOption, once _create_schema_content has been called,
\* schema_content holds the stub classes {Entity}Base, {Entity} and
\* {Entity}ID, then {Entity}Create iff the option selects create and
\* {Entity}Update iff it selects update (five for crud, three for rd).
C13_SchemaClasses ==
    scalls # <<>> /\ scalls.schema > 0 =>
        /\ sobj.schema_content # NoContent
        /\ SelectSeq(sobj.schema_content, LAMBDA line : line \in SchemaClassHeaders(sobj.name))
             = ExpectedSchemaClasses(sobj.name, sobj.option)

\* The import statement of the authenticated-user dependency.
AuthImportLine == "from app.auth import ACTIVE_USER_DEPEND"

\* C15: in one process every call of route_imports(add_auth=True) appends one
\* more auth import to the shared BASE list, so the router content of the
\* k-th synthesis holds the auth import line k times: twice on the second
\* synthesis, three times on the third.
C15_AuthImportRepeats ==
    [][(scalls # <<>> /\ scalls'.init = scalls.init + 1) =>
          /\ Len(sbase') = Len(RouteImportsBASE) + scalls'.init
          /\ Count(sobj'.init_content, AuthImportLine) = scalls'.init]_vars

\* The first lines of the route blocks of full CRUD, in canonical order:
\* the decorator and the path of list-GET, single-GET, POST, PUT and DELETE.
CanonicalBlockHeads ==
    << <<"@router.get(", indent("\"\",")>>,
       <<"@router.get(", indent("\"/{id}\",")>>,
       <<"@router.post(", indent("\"\",")>>,
       <<"@router.put(", indent("\"/{id}\",")>>,
       <<"@router.delete(", indent("\"/{id}\",")>> >>

DecoratorLines == {"@router." \o RouteMethods[i] \o "(" : i \in DOMAIN RouteMethods}

\* The lines of a text at which a route block starts, in the order of the text.
BlockStarts(text) ==
    SelectSeq([i \in DOMAIN text |-> i], LAMBDA i : text[i] \in DecoratorLines)

\* The last line of the block that starts at this line: its body.
BlockEnd(text, start) ==
    CHOOSE j \in start..Len(text) :
        /\ text[j] = indent("pass")
        /\ \A k \in start..(j - 1) : text[k] # indent("pass")

\* The declaration of the router for a plural name.
RouterDeclaration(plural) ==
    "router = APIRouter(prefix=\"/" \o plural \o "\", tags=[\"" \o Title(plural) \o "\"])"

\* The router content of full CRUD: the declaration line once, then the five
\* route blocks in canonical order, `gap` blank lines between two blocks and
\* one blank line after the last.
RouterLayout(text, plural, gap) ==
    LET starts == BlockStarts(text)
        decl == {i \in DOMAIN text : text[i] = RouterDeclaration(plural)}
    IN /\ Cardinality(decl) = 1
       /\ Len(starts) = Len(CanonicalBlockHeads)
       /\ \A i \in decl : i < starts[1]
       /\ \A n \in DOMAIN starts :
             /\ text[starts[n]] = CanonicalBlockHeads[n][1]
             /\ text[starts[n] + 1] = CanonicalBlockHeads[n][2]
       /\ \A n \in 1..(Len(starts) - 1) :
             LET end == BlockEnd(text, starts[n])
             IN /\ starts[n + 1] = end + gap + 1
                /\ \A k \in (end + 1)..(starts[n + 1] - 1) : text[k] = ""
       /\ SubSeq(text, BlockEnd(text, starts[Len(starts)]) + 1, Len(text)) = <<"", "">>

\* C19: the router content _create_init_content leaves on a full-CRUD object
\* holds the declaration line and then the five route blocks in canonical
\* order, exactly one blank line between two consecutive blocks and a blank
\* line after the last.
C19_OneBlankLineBetween ==
    [][(/\ scalls # <<>>
        /\ scalls'.init = scalls.init + 1
        /\ sobj.option = <<"c", "r", "u", "d">>)
       => RouterLayout(sobj'.init_content, sobj.name.plural, 1)]_vars

\* C21: synthesis is deterministic and shares no mutable state: a synthesis
\* leaves the list of RouteImports.BASE as it was; a synthesis for the
\* (name, option) of an earlier synthesis of the same process gives the
\* router text and the responses text the earlier one gave; and resolving
\* the routes leaves the route dictionary as it was.
C21_Deterministic ==
    [][(/\ scalls # <<>>
        /\ sobj'.name = sobj.name
        /\ sobj'.option = sobj.option)
       => /\ sobj'.route_map = sobj.route_map
          /\ sbase' = sbase
          /\ (sobj.init_content # NoContent /\ sobj'.init_content # NoContent
                 => sobj'.init_content = sobj.init_content)
          /\ (sobj.response_content # NoContent /\ sobj'.response_content # NoContent
                 => sobj'.response_content = sobj.response_content)]_vars

(***************************************************************************)
(* Properties of new-key, checked under SpecKey.                           *)
(***************************************************************************)
\* ceil(n / d) on the naturals
CeilDiv(n, d) == (n + d - 1) \div d

\* new-key has printed its key.
Printed == kalgo # None /\ kout # NoKey

\* C16: the key new-key prints for a key size of b bytes (32, 48 or 64) has
\* ceil(b * 8 / 6) characters: 86 characters for HS512.
C16_KeyLength ==
    Printed =>
        LET b == JWTSize[kalgo] \div 8
        IN /\ kout.length = CeilDiv(b * 8, 6)
           /\ kalgo = "HS512" => kout.length = 86

(***************************************************************************)
(* Properties of the init command, checked under SpecSetup.                *)
(***************************************************************************)
\* Invocation p leaves the existence check of build() in this step.
SetupChecks(p) == pspc[p] = "built" /\ pspc'[p] # "built"

\* C17: build() exits with ALREADY_CONFIGURED, with no task built or run and
\* nothing touched, iff the project directory exists and has at least one
\* entry; a missing directory and an empty one do not count as a project.
C17_AlreadyConfigured ==
    /\ [][\A p \in SetupProcs :
             SetupChecks(p) =>
                 LET dir == psfs[psname[p]]
                     stopped == /\ pspc'[p] = "exit"
                                /\ psexit'[p] = ALREADY_CONFIGURED
                                /\ pstasks'[p] = <<>> /\ psran'[p] = <<>>
                                /\ psfs' = psfs
                 IN stopped <=> (dir.exists /\ dir.entries # {})]_vars
    /\ [](\A p \in SetupProcs :
            pspc # <<>> /\ psexit[p] = ALREADY_CONFIGURED =>
                pstasks[p] = <<>> /\ psran[p] = <<>>)

\* The first init built the project in an empty directory; the second, on the
\* same name, found it configured.
C17_Witness ==
    /\ pspc # <<>>
    /\ psname[1] = psname[2]
    /\ psexit[1] = COMPLETE
    /\ psexit[2] = ALREADY_CONFIGURED /\ psran[2] = <<>>

\* The tasks of init, in the order they are to run.
SetupOrder == <<"_make_toml", "_move_assets", "_update_env">>

\* C18: when the project does not exist, build() runs the tasks of get_tasks
\* once each in list order (_make_toml, _move_assets, _update_env) and exits
\* with COMPLETE only after the last of them.
C18_TasksInOrder ==
    pspc # <<>> =>
        \A p \in SetupProcs :
            /\ pspc[p] = "running" => psran[p] \o pstasks[p] = SetupOrder
            /\ pspc[p] = "exit" /\ psexit[p] # ALREADY_CONFIGURED =>
                  psexit[p] = COMPLETE /\ psran[p] = SetupOrder /\ pstasks[p] = <<>>
            /\ psexit[p] = COMPLETE => pspc[p] = "exit" /\ psran[p] = SetupOrder

\* An init on a missing directory has run its three tasks and exited COMPLETE.
C18_Witness ==
    /\ pspc # <<>>
    /\ \E p \in SetupProcs :
         /\ psexit[p] = COMPLETE
         /\ psran[p] = <<"_make_toml", "_move_assets", "_update_env">>
         /\ psfs[psname[p]].env = "updated"
         /\ {"pyproject.toml", ENV_FILENAME, "app"} \subseteq psfs[psname[p]].entries

\* C30: when a task of an init raises after the project directory got a file,
\* the directory stays as the task left it, and every later init for the same
\* name exits ALREADY_CONFIGURED with no task run: the setup is never
\* completed.
C30_FailedSetupStays ==
    /\ [](pspc # <<>> =>
            \A p \in SetupProcs :
                pspc[p] = "raised" =>
                    /\ psfs[psname[p]].exists
                    /\ "pyproject.toml" \in psfs[psname[p]].entries
                    /\ psfs[psname[p]].env # "updated"
                    /\ \A q \in SetupProcs :
                         (p < q /\ psname[q] = psname[p] /\ pspc[q] # "built")
                         => /\ pspc[q] = "exit"
                            /\ psexit[q] = ALREADY_CONFIGURED
                            /\ psran[q] = <<>>
                            /\ pstasks[q] = <<>>)
    /\ [][\A p \in SetupProcs :
             pspc[p] = "raised" => psfs'[psname[p]] = psfs[psname[p]]]_vars

\* The first init raised in _make_toml, after it made pyproject.toml; the
\* second, for the same name, exited ALREADY_CONFIGURED.
C30_Witness ==
    /\ pspc # <<>>
    /\ pspc[1] = "raised" /\ psran[1] = <<>>
    /\ psname[2] = psname[1]
    /\ pspc[2] = "exit" /\ psexit[2] = ALREADY_CONFIGURED
    /\ psfs[psname[1]].entries = {"pyproject.toml"}

(***************************************************************************)
(* Properties of CRUD, checked under SpecCrud.                             *)
(***************************************************************************)
\* The row of a table with an id.
RowOf(table, id) == CHOOSE row \in Range(table) : row.id = id

\* C23: update and delete with an id that is not in the table return None and
\* leave the table unchanged; update with an id of the table sets the fields
\* that were set in the data and changes no other field and no other row.
C23_UpdateDeleteMissingOrPartial ==
    [][/\ (cop'.op \in {"update", "delete"} /\ cop'.id \notin IdsOf(ctable))
            => (cres' = ReturnNone /\ ctable' = ctable)
       /\ (cop'.op = "update" /\ cop'.id \in IdsOf(ctable))
            => /\ Len(ctable') = Len(ctable)
               /\ \A i \in DOMAIN ctable :
                    IF ctable[i].id = cop'.id
                    THEN /\ \A f \in DOMAIN cop'.data : ctable'[i][f] = cop'.data[f]
                         /\ \A f \in DOMAIN ctable[i] \ DOMAIN cop'.data :
                              ctable'[i][f] = ctable[i][f]
                         /\ cres' = ReturnItem(ctable'[i])
                    ELSE ctable'[i] = ctable[i]]_vars

\* An update of one field of a row of a table of two rows, where the row's
\* other field differs from the default of the data.
C23_Witness ==
    /\ cop # <<>>
    /\ cop.op = "update"
    /\ DOMAIN cop.data = {"active"}
    /\ Len(ctable) = 2
    /\ ~cres.none
    /\ cres.rows[1].name = "bob"
    /\ cres.rows[1].active = cop.data.active

\* C24: get returns an item exactly for an id created and not deleted since;
\* delete of such an id returns the item, and afterwards get and a second
\* delete of it return None; get_multiple returns at most limit items, none of
\* them among the first skip items.
C24_GetDeleteGetMultiple ==
    [][/\ cop'.op = "get"
            => /\ ~cres'.none <=> cop'.id \in clive
               /\ ~cres'.none => cres'.rows[1].id = cop'.id
       /\ (cop'.op = "delete" /\ cop'.id \in clive)
            => /\ cop'.id \in IdsOf(ctable)
               /\ cres' = ReturnItem(RowOf(ctable, cop'.id))
               /\ CRUD_get(ctable', cop'.id) = ReturnNone
               /\ CRUD_delete(ctable', cop'.id).return = ReturnNone
       /\ (cop'.op = "delete" /\ cop.op = "delete" /\ cop'.id = cop.id)
            => cres' = ReturnNone
       /\ cop'.op = "get_multiple"
            => /\ Len(cres'.rows) <= cop'.limit
               /\ \A k \in DOMAIN cres'.rows :
                    /\ cres'.rows[k] \in Range(ctable)
                    /\ \A i \in DOMAIN ctable :
                         i <= cop'.skip => cres'.rows[k] # ctable[i]]_vars

\* A delete that returned its item and left other rows in the table.
C24_Witness ==
    /\ cop # <<>>
    /\ cop.op = "delete"
    /\ ~cres.none
    /\ cres.rows[1].id = cop.id
    /\ cop.id \notin IdsOf(ctable)
    /\ ctable # <<>>

(***************************************************************************)
(* The order of the steps of build(), checked under Spec.                  *)
(***************************************************************************)
\* The steps build() can take from one position to the next.
BuildOrder ==
    {<<"idle", "built">>, <<"idle", "raised">>, <<"built", "exit">>,
     <<"built", "checked">>, <<"checked", "running">>, <<"running", "exit">>}

\* C25: build() goes from the existence check to the construction of the
\* tasks, to the creation of the files, to the write of the contents, to the
\* exit CREATED; _create_route_files runs before _update_files, _update_files
\* is the last task, and FOLDER_EXISTS comes only straight from the check.
C25_StepOrder ==
    [][\A p \in Procs :
         /\ pc'[p] # pc[p] => <<pc[p], pc'[p]>> \in BuildOrder
         /\ (exit_code'[p] = FOLDER_EXISTS /\ exit_code[p] # FOLDER_EXISTS)
              => /\ pc[p] = "built"
                 /\ tasks[p].list = <<>>
                 /\ hist[p].ran = <<>>
         /\ (exit_code'[p] = CREATED /\ exit_code[p] # CREATED)
              => /\ pc[p] = "running"
                 /\ hist[p].ran = <<"_create_route_files", "_update_files">>
         /\ (pc[p] = "checked" /\ pc'[p] = "running")
              => /\ hist[p].ran = <<>>
                 /\ HasContent(self'[p].init_content)
                 /\ HasContent(self'[p].response_content)
                 /\ tasks'[p].list = <<"_create_route_files", "_update_files">>
         /\ hist'[p].ran \in {<<>>, <<"_create_route_files">>,
                               <<"_create_route_files", "_update_files">>}
         /\ hist'[p].ran # hist[p].ran
              => /\ pc[p] = "running"
                 /\ Head(tasks[p].list) = hist'[p].ran[Len(hist'[p].ran)]]_vars

(***************************************************************************)
(* The read routes of an option, checked under SpecGen.                    *)
(***************************************************************************)
\* The route a route map holds under a key.
RouteAt(route_map, key) ==
    (CHOOSE item \in Range(route_map) : item.key = key).route

\* C27: every option resolves to two to five routes, one of them at least not
\* a DELETE; an option with the letter r gives both read routes, r1 and right
\* after it r2, and an option without r gives neither.
C27_ReadRoutesTogether ==
    gstage = "resolved" =>
        /\ Len(groutes) >= 2
        /\ Len(groutes) <= 5
        /\ \E i \in DOMAIN groutes : groutes[i].method # "delete"
        /\ IF Contains(gopt, "r")
           THEN /\ Count(groutes, RouteAt(gmap, KeyR1)) = 1
                /\ Count(groutes, RouteAt(gmap, KeyR2)) = 1
                /\ \E i \in 1..(Len(groutes) - 1) :
                      /\ groutes[i] = RouteAt(gmap, KeyR1)
                      /\ groutes[i + 1] = RouteAt(gmap, KeyR2)
           ELSE /\ Count(groutes, RouteAt(gmap, KeyR1)) = 0
                /\ Count(groutes, RouteAt(gmap, KeyR2)) = 0

\* Option rd resolved to the two read routes and the DELETE route.
C27_Witness ==
    /\ gstage = "resolved"
    /\ gopt = <<"r", "d">>
    /\ Len(groutes) = 3
    /\ groutes[1].multi /\ groutes[2].method = "get" /\ ~groutes[2].multi
    /\ groutes[3].method = "delete"

(***************************************************************************)
(* Two invocations at once, checked under SpecRace.                        *)
(***************************************************************************)
\* Invocation p has passed the existence check and has made nothing yet.
PassedCheck(p) ==
    /\ pc[p] \in {"checked", "running"}
    /\ hist[p].absent
    /\ hist[p].writes = 0

\* C28: the existence check gives no mutual exclusion.  While an invocation
\* that passed the check has made nothing yet, the check of another invocation
\* for the same name passes too; and two invocations for one name that both
\* passed the check both run their two tasks and exit CREATED.
C28_CheckExcludesNobody ==
    /\ \A p \in Racers, q \in Racers :
          (/\ p # q
           /\ PassedCheck(p)
           /\ pc[q] = "built"
           /\ self[q].name = self[p].name)
          => ~check_folder_exists(fs, self[q])
    /\ (/\ \A p \in Racers : EndedOnAbsent(p)
        /\ self[1].name = self[2].name)
       => \A p \in Racers :
             /\ exit_code[p] = CREATED
             /\ hist[p].ran = <<"_create_route_files", "_update_files">>

====
